---- MODULE Spec2Model ----
(***************************************************************************)
(* csv_to_sqlite: the CSV cache (src/src/csvcache.rs), the run of main and  *)
(* the row writers (src/src/main.rs, src/src/sql.rs) as a state machine.    *)
(* Strings are TLA+ strings, Vec<T> are sequences, Option<T> are records    *)
(* [some, val], Result<T> are records [ok, ...].  Indices of the source are *)
(* 0-based; sequences here are 1-based, so source index i is position i+1.  *)
(***************************************************************************)
EXTENDS Integers, Sequences, FiniteSets, TLC

VARIABLES
    args,             \* Arguments: use_header, default_column_name
    pc,               \* position of the run
    parsed,           \* what the csv reader has yielded so far: header result, record results
    cache,            \* CSVCache under construction, then the loaded cache
    store,            \* the SQLite database behind the connection
    stmts,            \* the statements handed to the connection, in order
    log,              \* the kinds of error!() lines written
    ii,               \* loop index over the records (0-based, as enumerate())
    records_written,  \* populate_table's counter
    ret               \* the value returned by the last call

vars == <<args, pc, parsed, cache, store, stmts, log, ii, records_written, ret>>

----------------------------------------------------------------------------
(* Bounds of the model *)

MaxRecords == 2
MaxRowWidth == 3
MaxHeaderWidth == 2

(* Input domains *)

HeaderNames == {"a", "b", ""}
DefaultColumnNames == {"column", "n"}
InputPaths == {"data.csv", ""}

SeqsUpTo(S, n) == UNION {[1..k -> S] : k \in 0..n}

\* The data row of width w: its fields are "1", "2", ..., so that a field tells its column.
DataRow(w) == [k \in 1..w |-> ToString(k)]

DataRows == {DataRow(w) : w \in 0..MaxRowWidth}
HeaderRows == SeqsUpTo(HeaderNames, MaxHeaderWidth)

\* Result<StringRecord, csv::Error>
OkRecord(fields) == [ok |-> TRUE, fields |-> fields]
ErrRecord == [ok |-> FALSE, fields |-> <<>>]

RecordResults == {OkRecord(r) : r \in DataRows} \cup {ErrRecord}
HeaderResults == {OkRecord(h) : h \in HeaderRows} \cup {ErrRecord}

\* Option<Vec<String>>
Some(v) == [some |-> TRUE, val |-> v]
None == [some |-> FALSE, val |-> <<>>]

Max(a, b) == IF a > b THEN a ELSE b

----------------------------------------------------------------------------
(* CSVCache::load, src/src/csvcache.rs:34-112 *)

\* The locals of load before the header is read (lines 45, 74).
EmptyCache == [header |-> None, rows |-> <<>>, max_column_count |-> 0,
               default_column_name |-> ""]

NoHeaderRead == [read |-> FALSE, ok |-> FALSE, fields |-> <<>>]

\* match reader.headers() (lines 50-62)
HeaderOfResult(h) == IF h.ok THEN Some(h.fields) ELSE None

\* line 65
HeaderColumnCount(val) == IF val.some THEN Len(val.val) ELSE 0

\* line 84 without the update
MaxColumnCountKept(max_column_count, record) == max_column_count

\* line 84: max_column_count.max(record.len())
NextMaxColumnCount(max_column_count, record) == Max(max_column_count, Len(record))

\* lines 77-78, a record kept whenever it parsed
RecordParsed(rec) == rec.ok

\* lines 77-78: Ok(record) and !record.is_empty()
RecordIsStored(rec) == rec.ok /\ Len(rec.fields) > 0

\* line 100 with the 0-based index itself as the suffix
GeneratedNameOffByOne(default_column_name, index) == default_column_name \o ToString(index)

\* format!("{}{}", default_column_name, ii + 1), lines 100 and 159; index is 0-based
GeneratedName(default_column_name, index) == default_column_name \o ToString(index + 1)

\* lines 97-103: for ii in header.len() .. max_column_count { header.push(...) }
PadHeader(header, max_column_count, default_column_name) ==
    IF header.some /\ max_column_count > Len(header.val)
    THEN Some(header.val \o
              [k \in 1..(max_column_count - Len(header.val)) |->
                  GeneratedName(default_column_name, Len(header.val) + k - 1)])
    ELSE header

----------------------------------------------------------------------------
(* The state after construction *)

\* Connection::open on a new file: no table, last_insert_rowid() = 0, autocommit.
\* preexisting remembers whether the file already held the table when it was opened.
FreshStore == [exists |-> FALSE, columns |-> <<>>, data |-> <<>>,
               last_insert_rowid |-> 0, in_transaction |-> FALSE, preexisting |-> FALSE]

NoReturn == [fn |-> "none", ok |-> TRUE, val |-> <<>>]

InitAt(start) ==
    /\ args \in [input : InputPaths, use_header : BOOLEAN,
                  default_column_name : DefaultColumnNames]
    /\ pc = start
    /\ parsed = [header |-> NoHeaderRead, records |-> <<>>]
    /\ cache = EmptyCache
    /\ store = FreshStore
    /\ stmts = <<>>
    /\ log = {}
    /\ ii = 0
    /\ records_written = 0
    /\ ret = NoReturn

\* A call of CSVCache::load on its own.
InitLoad == InitAt("load")

\* The start of main.
Init == InitAt("open_db")

----------------------------------------------------------------------------
(* CSVCache::load as steps: open, header, one step per record, padding *)

\* from_path(path): a named file opens or not; the empty path never opens.
CanOpen(path) == IF path = "" THEN {FALSE} ELSE BOOLEAN

\* lines 37-45: ReaderBuilder ... .from_path(path)?
LoadOpen ==
    /\ pc = "load"
    /\ \E opened \in CanOpen(args.input) :
         IF opened
         THEN /\ pc' = "headers"
              /\ ret' = ret
         ELSE /\ pc' = "load_err"
              /\ ret' = [fn |-> "load", ok |-> FALSE, val |-> <<>>]
    /\ UNCHANGED <<args, parsed, cache, store, stmts, log, ii, records_written>>

\* lines 48-71: the header, when use_header
LoadHeader ==
    /\ pc = "headers"
    /\ IF args.use_header
       THEN \E h \in HeaderResults :
              /\ parsed' = [parsed EXCEPT !.header =
                               [read |-> TRUE, ok |-> h.ok, fields |-> h.fields]]
              /\ cache' = [cache EXCEPT
                               !.header = HeaderOfResult(h),
                               !.max_column_count = HeaderColumnCount(HeaderOfResult(h))]
              /\ log' = IF h.ok THEN log ELSE log \cup {"headers"}
       ELSE /\ cache' = [cache EXCEPT !.header = None]
            /\ UNCHANGED <<parsed, log>>
    /\ pc' = "records"
    /\ UNCHANGED <<args, store, stmts, ii, records_written, ret>>

\* lines 75-94: one turn of for row in reader.records()
LoadRecord ==
    /\ pc = "records"
    /\ Len(parsed.records) < MaxRecords
    /\ \E rec \in RecordResults :
         /\ parsed' = [parsed EXCEPT !.records = Append(@, rec)]
         /\ IF RecordIsStored(rec)
            THEN cache' = [cache EXCEPT
                     !.max_column_count = NextMaxColumnCount(@, rec.fields),
                     !.rows = Append(@, rec.fields)]
            ELSE cache' = cache
         /\ log' = IF rec.ok THEN log ELSE log \cup {"record"}
    /\ UNCHANGED <<args, pc, store, stmts, ii, records_written, ret>>

\* lines 96-111: the reader is exhausted; pad the header and return the cache
LoadFinish ==
    /\ pc = "records"
    /\ cache' = [cache EXCEPT
                    !.header = PadHeader(cache.header, cache.max_column_count,
                                         args.default_column_name),
                    !.default_column_name = args.default_column_name]
    /\ pc' = "loaded"
    /\ ret' = [fn |-> "load", ok |-> TRUE, val |-> <<>>]
    /\ UNCHANGED <<args, parsed, store, stmts, log, ii, records_written>>

Load == LoadOpen \/ LoadHeader \/ LoadRecord \/ LoadFinish

----------------------------------------------------------------------------
(* The accessors of CSVCache *)

\* longest_row, src/src/csvcache.rs:115-124
RECURSIVE LongestOf(_, _)
LongestOf(rows, max_len) ==
    IF rows = <<>> THEN max_len
    ELSE LongestOf(Tail(rows), Max(max_len, Len(Head(rows))))

longest_row(c) == LongestOf(c.rows, IF c.header.some THEN Len(c.header.val) ELSE 0)

\* header(), src/src/csvcache.rs:130-139
header(c) == IF ~c.header.some THEN <<>> ELSE c.header.val

\* Option<&str>
SomeStr(s) == [some |-> TRUE, val |-> s]
NoneStr == [some |-> FALSE, val |-> ""]

\* row.get(column), 0-based
Get(row, column) == IF column < Len(row) THEN SomeStr(row[column + 1]) ELSE NoneStr

\* get_nth_in_rows, src/src/csvcache.rs:144-154
get_nth_in_rows(c, column) ==
    IF column > c.max_column_count
    THEN <<>>
    ELSE [k \in 1..Len(c.rows) |-> Get(c.rows[k], column)]

\* column_desc, src/src/csvcache.rs:158-170
column_desc(c, index) ==
    LET auto_name == GeneratedName(c.default_column_name, index)
        column_name == IF c.header.some
                       THEN (IF index < Len(c.header.val)
                             THEN c.header.val[index + 1] ELSE auto_name)
                       ELSE auto_name
    IN  <<column_name, "TEXT">>

\* The column indices a caller asks for: every index of a row, and two beyond.
ColumnIndices == 0..(MaxRowWidth + 1)

CallGetNthInRows ==
    /\ pc = "loaded"
    /\ \E column \in ColumnIndices :
         ret' = [fn |-> "get_nth_in_rows", ok |-> TRUE, arg |-> column,
                 val |-> get_nth_in_rows(cache, column)]
    /\ pc' = "returned"
    /\ UNCHANGED <<args, parsed, cache, store, stmts, log, ii, records_written>>

CallColumnDesc ==
    /\ pc = "loaded"
    /\ \E index \in ColumnIndices :
         ret' = [fn |-> "column_desc", ok |-> TRUE, arg |-> index,
                 val |-> column_desc(cache, index)]
    /\ pc' = "returned"
    /\ UNCHANGED <<args, parsed, cache, store, stmts, log, ii, records_written>>

CallLongestRow ==
    /\ pc = "loaded"
    /\ ret' = [fn |-> "longest_row", ok |-> TRUE, arg |-> 0, val |-> longest_row(cache)]
    /\ pc' = "returned"
    /\ UNCHANGED <<args, parsed, cache, store, stmts, log, ii, records_written>>

CallHeader ==
    /\ pc = "loaded"
    /\ ret' = [fn |-> "header", ok |-> TRUE, arg |-> 0, val |-> header(cache)]
    /\ pc' = "returned"
    /\ UNCHANGED <<args, parsed, cache, store, stmts, log, ii, records_written>>

NextCache == Load \/ CallGetNthInRows \/ CallColumnDesc \/ CallLongestRow \/ CallHeader

\* A load followed by a call of one accessor.
SpecCache == InitLoad /\ [][NextCache]_vars

----------------------------------------------------------------------------
(* SQL text.  A statement's lists are sequences of tokens, built the way the   *)
(* format! calls build the text, so that what the database parses is what the *)
(* code wrote.                                                                *)

Comma == <<",">>
Space == <<" ">>
Placeholder == <<"?">>
Ident(name) == <<"ident", name>>              \* "name"
Literal(value) == <<"literal", value>>        \* a number written into the text
ColumnDef(name, type) == <<"def", name, type>> \* "name" TYPE

\* Vec<String>::join(sep)
RECURSIVE Join(_, _)
Join(items, sep) ==
    IF items = <<>> THEN <<>>
    ELSE IF Len(items) = 1 THEN <<Head(items)>>
    ELSE <<Head(items)>> \o sep \o Join(Tail(items), sep)

\* str::repeat(n)
RECURSIVE Repeat(_, _)
Repeat(text, n) == IF n = 0 THEN <<>> ELSE text \o Repeat(text, n - 1)

\* str::strip_suffix(suffix), for a suffix of one token: Option<&str>
StripSuffix(text, token) ==
    IF text # <<>> /\ text[Len(text)] = token
    THEN Some(SubSeq(text, 1, Len(text) - 1))
    ELSE None

TableName == "data"

\* create_table's query, src/src/sql.rs:9-15
create_table_query(table_columns) ==
    LET columns == Join([k \in 1..Len(table_columns) |->
                            ColumnDef(table_columns[k][1], table_columns[k][2])],
                        <<Comma, Space>>)
    IN  [op |-> "CREATE", table |-> TableName,
         columns |-> <<ColumnDef("id", "INTEGER PRIMARY KEY AUTOINCREMENT"), Comma, Space>>
                     \o columns]

----------------------------------------------------------------------------
(* The database behind rusqlite::Connection, as far as the statements of the *)
(* program exercise it.                                                       *)

\* White space separates tokens and means nothing else.
SqlTokens(text) == SelectSeq(text, LAMBDA t : t # Space)

\* item , item , ... , item
SqlListOk(text) ==
    LET ts == SqlTokens(text)
    IN  /\ Len(ts) % 2 = 1
        /\ \A k \in 1..Len(ts) : (k % 2 = 0) <=> (ts[k] = Comma)

SqlListItems(text) ==
    LET ts == SqlTokens(text)
    IN  [k \in 1..((Len(ts) + 1) \div 2) |-> ts[2 * k - 1]]

Distinct(seq) == \A j, k \in 1..Len(seq) : seq[j] = seq[k] => j = k

Range(seq) == {seq[k] : k \in 1..Len(seq)}

RowIds(s) == {s.data[k].id : k \in 1..Len(s.data)}

RECURSIVE MaxOf(_)
MaxOf(S) == IF S = {} THEN 0 ELSE LET x == CHOOSE x \in S : TRUE IN Max(x, MaxOf(S \ {x}))

\* The outcome of a statement: Result<usize> and the database after it.
SqlErr(s) == [ok |-> FALSE, changed |-> 0, store |-> s]
SqlOk(s, changed) == [ok |-> TRUE, changed |-> changed, store |-> s]

\* CREATE TABLE IF NOT EXISTS "t" (defs)
ExecCreate(s, q) ==
    LET defs == SqlListItems(q.columns)
        names == [k \in 1..Len(defs) |-> defs[k][2]]
    IN  IF ~SqlListOk(q.columns) \/ (\E k \in 1..Len(defs) : defs[k][1] # "def")
        THEN SqlErr(s)
        ELSE IF s.exists THEN SqlOk(s, 0)
        ELSE IF ~Distinct(names) THEN SqlErr(s)
        ELSE SqlOk([s EXCEPT !.exists = TRUE, !.columns = Tail(names)], 0)

\* The value a new row gets in a column: bound or NULL.
CellOf(columns, values, name) ==
    IF \E k \in 1..Len(columns) : columns[k] = name
    THEN SomeStr(values[CHOOSE k \in 1..Len(columns) : columns[k] = name])
    ELSE NoneStr

\* INSERT INTO "t" (columns) VALUES (values), with the parameters bound to the ?s
ExecInsert(s, q) ==
    LET cols == SqlListItems(q.columns)
        vals == SqlListItems(q.values)
        names == [k \in 1..Len(cols) |-> cols[k][2]]
        nparams == Cardinality({k \in 1..Len(vals) : vals[k] = Placeholder})
    IN  IF \/ ~SqlListOk(q.columns) \/ ~SqlListOk(q.values)
           \/ \E k \in 1..Len(cols) : cols[k][1] # "ident"
           \/ \E k \in 1..Len(vals) : vals[k] # Placeholder /\ vals[k][1] # "literal"
           \/ Len(cols) # Len(vals)
        THEN SqlErr(s)
        ELSE IF \/ ~s.exists
                \/ ~Distinct(names)
                \/ ~(Range(names) \subseteq (Range(s.columns) \cup {"id"}))
                \/ nparams # Len(q.params)
        THEN SqlErr(s)
        ELSE LET bound == [k \in 1..Len(vals) |->
                              IF vals[k] = Placeholder
                              THEN q.params[Cardinality({j \in 1..k : vals[j] = Placeholder})]
                              ELSE vals[k][2]]
                 id == IF "id" \in Range(names)
                       THEN CellOf(names, bound, "id").val
                       ELSE MaxOf(RowIds(s)) + 1
             IN  IF id \in RowIds(s)
                 THEN SqlErr(s)
                 ELSE SqlOk([s EXCEPT
                                !.data = Append(@, [id |-> id,
                                     cells |-> [k \in 1..Len(s.columns) |->
                                                   CellOf(names, bound, s.columns[k])]]),
                                !.last_insert_rowid = id], 1)

\* UPDATE "t" SET "column" = ? WHERE "id" = ?, parameters <<value, id>>
ExecUpdate(s, q) ==
    IF ~s.exists \/ q.column \notin Range(s.columns) \/ Len(q.params) # 2
    THEN SqlErr(s)
    ELSE LET hit == {k \in 1..Len(s.data) : s.data[k].id = q.params[2]}
         IN  SqlOk([s EXCEPT !.data =
                       [k \in 1..Len(s.data) |->
                           IF k \in hit
                           THEN [s.data[k] EXCEPT !.cells =
                                    [c \in 1..Len(s.columns) |->
                                        IF s.columns[c] = q.column
                                        THEN SomeStr(q.params[1])
                                        ELSE s.data[k].cells[c]]]
                           ELSE s.data[k]]],
                   Cardinality(hit))

\* BEGIN TRANSACTION / END TRANSACTION
ExecBegin(s) ==
    IF s.in_transaction THEN SqlErr(s) ELSE SqlOk([s EXCEPT !.in_transaction = TRUE], 0)

ExecEnd(s) ==
    IF ~s.in_transaction THEN SqlErr(s) ELSE SqlOk([s EXCEPT !.in_transaction = FALSE], 0)

\* prepare_cached(query)?.execute(params): the statement runs unless the database
\* fails it for a reason of its own (fault: disk, lock).
Execute(s, q, fault) ==
    IF fault THEN SqlErr(s)
    ELSE CASE q.op = "CREATE" -> ExecCreate(s, q)
           [] q.op = "INSERT" -> ExecInsert(s, q)
           [] q.op = "UPDATE" -> ExecUpdate(s, q)
           [] q.op = "BEGIN"  -> ExecBegin(s)
           [] q.op = "END"    -> ExecEnd(s)

\* create_table, src/src/sql.rs:8-21
create_table(s, table_columns, fault) == Execute(s, create_table_query(table_columns), fault)

----------------------------------------------------------------------------
(* main, src/src/main.rs:79-153 *)

\* A database file left by an earlier run on a file that held only the header "a".
OldStore == [exists |-> TRUE, columns |-> <<"a">>, data |-> <<>>,
             last_insert_rowid |-> 0, in_transaction |-> FALSE, preexisting |-> TRUE]

Databases == {FreshStore, OldStore}

Panic(cause) ==
    /\ pc' = "panicked"
    /\ ret' = [fn |-> "panic", ok |-> FALSE, val |-> cause]

\* A statement as the connection saw it: the query, its result, and whether the
\* database failed it for a reason of its own.
Issued(q, r, fault) == [q |-> q, ok |-> r.ok, fault |-> fault]

\* Path::file_name of path.with_extension(""), lines 168-172: None for the empty path
basename(path) == IF path = "" THEN NoneStr ELSE SomeStr(TableName)

\* line 92: Connection::open(path).expect(...)
MainOpenDb ==
    /\ pc = "open_db"
    /\ \E opened \in BOOLEAN, db \in Databases :
         IF opened
         THEN pc' = "table_name" /\ store' = db /\ ret' = ret
         ELSE Panic("open_db") /\ store' = store
    /\ UNCHANGED <<args, parsed, cache, stmts, log, ii, records_written>>

\* lines 97-100: --table-name, or the base name of the input, unwrapped
MainTableName ==
    /\ pc = "table_name"
    /\ \E table_name \in {NoneStr, SomeStr(TableName)} :
         IF ~table_name.some /\ ~basename(args.input).some
         THEN Panic("basename")
         ELSE pc' = "load" /\ ret' = ret
    /\ UNCHANGED <<args, parsed, cache, store, stmts, log, ii, records_written>>

\* line 103: CSVCache::load(...).expect("Error loading file!")
MainLoadFailed ==
    /\ pc = "load_err"
    /\ Panic("load")
    /\ UNCHANGED <<args, parsed, cache, store, stmts, log, ii, records_written>>

IndexColumns == {NoneStr, SomeStr("auto"), SomeStr("a"), SomeStr("b")}

\* lines 113-123: a named index column must be in the header
MainIndexColumn ==
    /\ pc = "loaded"
    /\ \E index_column \in IndexColumns :
         IF /\ index_column.some
            /\ index_column.val # "auto"
            /\ index_column.val \notin Range(header(cache))
         THEN Panic("index_column") /\ log' = log \cup {"index_column"}
         ELSE pc' = "create" /\ ret' = ret /\ log' = log
    /\ UNCHANGED <<args, parsed, cache, store, stmts, ii, records_written>>

\* lines 107-110: the table's columns are the entries of header()
table_columns(c) == [k \in 1..Len(header(c)) |-> <<header(c)[k], "TEXT">>]

\* lines 127-130: create the table; an error is logged and the run goes on
MainCreateTable ==
    /\ pc = "create"
    /\ \E fault \in BOOLEAN :
         LET r == create_table(store, table_columns(cache), fault)
         IN  /\ store' = r.store
             /\ stmts' = Append(stmts, Issued(create_table_query(table_columns(cache)), r, fault))
             /\ log' = IF r.ok THEN log ELSE log \cup {"create_table"}
    /\ pc' = "rows"
    /\ ii' = 0
    /\ UNCHANGED <<args, parsed, cache, records_written, ret>>

\* add_row is called at line 140 and defined in none of the source files.  It is
\* modelled from the specification (4.3, insertRow): columns and values are padded
\* on the right with empty strings to the longer of the two, and one statement
\* inserts the padded values positionally.
PadRight(seq, n) == [k \in 1..n |-> IF k <= Len(seq) THEN seq[k] ELSE ""]

add_row_query(columns, values) ==
    LET n == Max(Len(columns), Len(values))
    IN  [op |-> "INSERT", table |-> TableName,
         columns |-> Join([k \in 1..n |-> Ident(PadRight(columns, n)[k])], <<Comma, Space>>),
         values |-> Join([k \in 1..n |-> Placeholder], <<Comma, Space>>),
         params |-> PadRight(values, n)]

add_row(s, columns, values, fault) == Execute(s, add_row_query(columns, values), fault)

\* lines 139-144, the loop stopping at the first error
AfterRowStopOnError(ok, index, len) == IF ok THEN index + 1 ELSE len

\* lines 139-144: whatever add_row returned, the loop goes on to the next row
AfterRow(ok, index, len) == index + 1

\* lines 139-144: one turn of the loop over the cached rows
MainAddRow ==
    /\ pc = "rows"
    /\ ii < Len(cache.rows)
    /\ \E fault \in BOOLEAN :
         LET row == cache.rows[ii + 1]
             r == add_row(store, header(cache), row, fault)
         IN  /\ store' = r.store
             /\ stmts' = Append(stmts, Issued(add_row_query(header(cache), row), r, fault))
             /\ log' = IF r.ok THEN log ELSE log \cup {"add_row"}
             /\ ii' = AfterRow(r.ok, ii, Len(cache.rows))
    /\ UNCHANGED <<args, pc, parsed, cache, records_written, ret>>

\* line 153: the loop is over and main returns
MainReturn ==
    /\ pc = "rows"
    /\ ii >= Len(cache.rows)
    /\ pc' = "done"
    /\ UNCHANGED <<args, parsed, cache, store, stmts, log, ii, records_written, ret>>

MainSetup ==
    \/ MainOpenDb \/ MainTableName \/ Load \/ MainLoadFailed
    \/ MainIndexColumn \/ MainCreateTable

Next == MainSetup \/ MainAddRow \/ MainReturn

\* A run of main.
Spec == Init /\ [][Next]_vars

----------------------------------------------------------------------------
(* The row writers of src/src/main.rs *)

\* line 215: format!("{}{}", default_column_name, ii), ii the 0-based index
DefaultColumnName(default_column_name, index) == default_column_name \o ToString(index)

\* add_row_no_index, src/src/main.rs:198-250.  panicked: strip_suffix(" ") found no
\* suffix to strip (line 202).  params is what line 232 leaves in `params`: the unit
\* value that Vec::append returns, that is, no parameter at all.
add_row_no_index(s, columns, values, default_column_name, fault) ==
    LET longest == Max(Len(columns), Len(values))
        placeholders == StripSuffix(Repeat(<<Placeholder, Space>>, longest), Space)
        query == [op |-> "INSERT", table |-> TableName,
                  columns |-> placeholders.val, values |-> placeholders.val,
                  params |-> <<>>]
        param_columns == [k \in 1..longest |->
                            IF k <= Len(columns) /\ columns[k] # ""
                            THEN columns[k]
                            ELSE DefaultColumnName(default_column_name, k - 1)]
        param_values == [k \in 1..longest |->
                            IF k <= Len(values) THEN values[k] ELSE ""]
        result == Execute(s, query, fault)
    IN  IF ~placeholders.some
        THEN [panicked |-> TRUE, ok |-> FALSE, store |-> s, query |-> query,
              param_columns |-> param_columns, param_values |-> param_values]
        ELSE [panicked |-> FALSE, ok |-> result.ok, store |-> result.store, query |-> query,
              param_columns |-> param_columns, param_values |-> param_values]

\* add_row_with_index with index = None, src/src/main.rs:252-262: a call of
\* add_row_no_index with the header as the columns and any row as the values.
CallAddRowWithIndex ==
    /\ pc = "rows"
    /\ ii = 0
    /\ \E values \in DataRows, fault \in BOOLEAN :
         LET r == add_row_no_index(store, header(cache), values,
                                   cache.default_column_name, fault)
         IN  IF r.panicked
             THEN Panic("strip_suffix") /\ UNCHANGED <<store, stmts>>
             ELSE /\ pc' = "returned"
                  /\ store' = r.store
                  /\ stmts' = Append(stmts, Issued(r.query, r, fault))
                  /\ ret' = [fn |-> "add_row_no_index", ok |-> r.ok,
                             columns |-> header(cache), values |-> values,
                             param_columns |-> r.param_columns,
                             param_values |-> r.param_values]
    /\ UNCHANGED <<args, parsed, cache, log, ii, records_written>>

\* populate_table, src/src/main.rs:176-196, called with the cached rows and header
CallPopulateTableMain ==
    /\ pc = "rows"
    /\ ii = 0
    /\ pc' = "populate_main"
    /\ records_written' = 0
    /\ UNCHANGED <<args, parsed, cache, store, stmts, log, ii, ret>>

\* lines 180-194: one turn of the loop
PopulateMainRow ==
    /\ pc = "populate_main"
    /\ ii < Len(cache.rows)
    /\ LET row == cache.rows[ii + 1]
           column_len == Len(header(cache))
       IN  IF Len(row) = 0 \/ Len(row) # column_len
           THEN UNCHANGED <<store, stmts, log, records_written>>
           ELSE \E fault \in BOOLEAN :
                  LET r == add_row_no_index(store, header(cache), row,
                                            cache.default_column_name, fault)
                  IN  /\ store' = r.store
                      /\ stmts' = Append(stmts, Issued(r.query, r, fault))
                      /\ log' = IF r.ok THEN log ELSE log \cup {"add_row_no_index"}
                      /\ records_written' = IF r.ok THEN records_written + 1
                                            ELSE records_written
    /\ ii' = ii + 1
    /\ UNCHANGED <<args, pc, parsed, cache, ret>>

\* line 195: Ok(records_written)
PopulateMainReturn ==
    /\ pc = "populate_main"
    /\ ii = Len(cache.rows)
    /\ pc' = "returned"
    /\ ret' = [fn |-> "populate_table_main", ok |-> TRUE, val |-> records_written]
    /\ UNCHANGED <<args, parsed, cache, store, stmts, log, ii, records_written>>

----------------------------------------------------------------------------
(* populate_table of src/src/sql.rs:25-91 *)

\* Where the database may fail one row's statements for a reason of its own.
SqlFaults(columns) ==
    {[at |-> a, k |-> 0] :
        a \in {"none", "prepare_select", "select", "insert", "begin", "end"}}
    \cup {[at |-> "update", k |-> k] : k \in 1..Len(columns)}

Min(a, b) == IF a < b THEN a ELSE b

\* lines 56-81: the UPDATE of each column, from the k-th pair of columns.zip(row) on,
\* stopping at the first error
RECURSIVE UpdateColumns(_, _, _, _, _, _)
UpdateColumns(s, columns, row, id, k, fault) ==
    IF k > Min(Len(columns), Len(row))
    THEN [success |-> TRUE, store |-> s, issued |-> <<>>]
    ELSE LET q == [op |-> "UPDATE", table |-> TableName, column |-> columns[k],
                   params |-> <<row[k], id>>]
             f == fault.at = "update" /\ fault.k = k
             r == Execute(s, q, f)
         IN  IF ~r.ok
             THEN [success |-> FALSE, store |-> r.store, issued |-> <<Issued(q, r, f)>>]
             ELSE LET rest == UpdateColumns(r.store, columns, row, id, k + 1, fault)
                  IN  [success |-> rest.success, store |-> rest.store,
                       issued |-> <<Issued(q, r, f)>> \o rest.issued]

\* lines 37-88, for one row that passed the length check.  err: a `?` returned the
\* error from populate_table; written: what the row adds to records_written.
populate_row(s, columns, row, fault) ==
    LET select == [op |-> "SELECT", table |-> TableName]
        id == IF fault.at = "select" THEN 0 ELSE s.last_insert_rowid + 1
        insert == [op |-> "INSERT", table |-> TableName,
                   columns |-> <<Ident("id")>>, values |-> <<Literal(id)>>,
                   params |-> <<>>]
        ri == Execute(s, insert, fault.at = "insert")
        begin == [op |-> "BEGIN", table |-> TableName]
        rb == Execute(ri.store, begin, fault.at = "begin")
        up == UpdateColumns(rb.store, columns, row, id, 1, fault)
        end == [op |-> "END", table |-> TableName]
        re == Execute(up.store, end, fault.at = "end")
        selected == <<[q |-> select, ok |-> fault.at # "select", fault |-> fault.at = "select"]>>
    IN  IF fault.at = "prepare_select"
        THEN [err |-> TRUE, store |-> s, written |-> 0,
              issued |-> <<[q |-> select, ok |-> FALSE, fault |-> TRUE]>>]
        ELSE IF ~ri.ok
        THEN [err |-> TRUE, store |-> ri.store, written |-> 0,
              issued |-> selected \o <<Issued(insert, ri, fault.at = "insert")>>]
        ELSE IF ~rb.ok
        THEN [err |-> TRUE, store |-> rb.store, written |-> 0,
              issued |-> selected \o <<Issued(insert, ri, FALSE),
                                       Issued(begin, rb, fault.at = "begin")>>]
        ELSE [err |-> ~re.ok, store |-> re.store,
              written |-> IF up.success THEN 1 ELSE 0,
              issued |-> selected \o <<Issued(insert, ri, FALSE), Issued(begin, rb, FALSE)>>
                         \o up.issued \o <<Issued(end, re, fault.at = "end")>>]

\* populate_table of sql.rs, called with the cached rows and header
CallPopulateTableSql ==
    /\ pc = "rows"
    /\ ii = 0
    /\ pc' = "populate_sql"
    /\ records_written' = 0
    /\ UNCHANGED <<args, parsed, cache, store, stmts, log, ii, ret>>

\* lines 27-89: one turn of the loop
PopulateSqlRow ==
    /\ pc = "populate_sql"
    /\ ii < Len(cache.rows)
    /\ LET row == cache.rows[ii + 1]
           columns == header(cache)
       IN  IF Len(row) = 0 \/ Len(row) # Len(columns)
           THEN /\ ii' = ii + 1
                /\ UNCHANGED <<pc, store, stmts, log, records_written, ret>>
           ELSE \E fault \in SqlFaults(columns) :
                  LET r == populate_row(store, columns, row, fault)
                  IN  /\ store' = r.store
                      /\ stmts' = stmts \o r.issued
                      /\ log' = IF \E k \in 1..Len(r.issued) :
                                      r.issued[k].q.op = "UPDATE" /\ ~r.issued[k].ok
                                THEN log \cup {"update"} ELSE log
                      /\ IF r.err
                         THEN /\ pc' = "returned"
                              /\ ret' = [fn |-> "populate_table_sql", ok |-> FALSE, val |-> 0]
                              /\ UNCHANGED <<ii, records_written>>
                         ELSE /\ ii' = ii + 1
                              /\ records_written' = records_written + r.written
                              /\ UNCHANGED <<pc, ret>>
    /\ UNCHANGED <<args, parsed, cache>>

\* line 90: Ok(records_written)
PopulateSqlReturn ==
    /\ pc = "populate_sql"
    /\ ii = Len(cache.rows)
    /\ pc' = "returned"
    /\ ret' = [fn |-> "populate_table_sql", ok |-> TRUE, val |-> records_written]
    /\ UNCHANGED <<args, parsed, cache, store, stmts, log, ii, records_written>>

Writers ==
    \/ CallAddRowWithIndex
    \/ CallPopulateTableMain \/ PopulateMainRow \/ PopulateMainReturn
    \/ CallPopulateTableSql \/ PopulateSqlRow \/ PopulateSqlReturn

NextWriter == Next \/ Writers

\* A run of main, or one of the writers called on main's connection, cache and
\* table in place of main's loop.
SpecWriter == Init /\ [][NextWriter]_vars

----------------------------------------------------------------------------
(* Properties of the cache, under SpecCache *)

\* load has returned Ok(cache)
Loaded == pc \in {"loaded", "returned"}

\* The records of the file that parsed and have at least one field, in file order.
StoredRecords == SelectSeq(parsed.records, LAMBDA r : r.ok /\ r.fields # <<>>)

\* The header the reader yielded and load kept.
HeaderInEffect == parsed.header.read /\ parsed.header.ok

\* C1: after load, max_column_count is at least the length of the header (0 without
\* a header) and at least the length of every stored row.
C1_MaxColumnCountCoversAll ==
    Loaded =>
        /\ cache.max_column_count >= Len(header(cache))
        /\ cache.header.some => cache.max_column_count >= Len(cache.header.val)
        /\ \A k \in 1..Len(cache.rows) : cache.max_column_count >= Len(cache.rows[k])

\* A load with a header, one row wider than it and one row no wider.
C1_Witness ==
    /\ Loaded
    /\ HeaderInEffect
    /\ Len(cache.rows) = 2
    /\ Len(cache.rows[1]) > Len(parsed.header.fields)
    /\ Len(cache.rows[2]) <= Len(parsed.header.fields)

\* C2: with a header in effect, a row wider than it makes load extend the header to
\* max_column_count entries: the parsed entries stay where they are and index i gets
\* default_column_name followed by i+1; with no wider row the header is the parsed one.
C2_HeaderPadding ==
    (Loaded /\ HeaderInEffect) =>
        LET parsed_header == parsed.header.fields
            wider == \E k \in 1..Len(StoredRecords) :
                        Len(StoredRecords[k].fields) > Len(parsed_header)
        IN  /\ cache.header.some
            /\ wider =>
                 /\ Len(cache.header.val) = cache.max_column_count
                 /\ \E k \in 1..Len(StoredRecords) :
                        Len(StoredRecords[k].fields) = cache.max_column_count
                 /\ \A i \in 0..(Len(cache.header.val) - 1) :
                        cache.header.val[i + 1] =
                            IF i < Len(parsed_header)
                            THEN parsed_header[i + 1]
                            ELSE args.default_column_name \o ToString(i + 1)
            /\ ~wider => cache.header.val = parsed_header

\* Header [a,b], one row [1,2,3], prefix "column": header [a,b,column3], 3 columns.
C2_Witness ==
    /\ Loaded
    /\ args.default_column_name = "column"
    /\ HeaderInEffect
    /\ parsed.header.fields = <<"a", "b">>
    /\ parsed.records = <<OkRecord(<<"1", "2", "3">>)>>
    /\ cache.header = Some(<<"a", "b", "column3">>)
    /\ cache.max_column_count = 3

\* C3: rows is exactly the records that parsed and have a field, in file order; a
\* record that failed to parse is skipped, and load fails only before any record or
\* header has been read.
C3_RowsAreStoredRecords ==
    /\ pc \in {"records", "loaded", "returned"} =>
           cache.rows = [k \in 1..Len(StoredRecords) |-> StoredRecords[k].fields]
    /\ Loaded => ret.ok
    /\ pc = "load_err" => (parsed.records = <<>> /\ ~parsed.header.read)

\* A record that failed to parse, followed by a record that was stored.
C3_Witness ==
    /\ Loaded
    /\ Len(parsed.records) = 2
    /\ ~parsed.records[1].ok
    /\ parsed.records[2].ok
    /\ cache.rows = <<parsed.records[2].fields>>
    /\ cache.rows[1] # <<>>

\* C9: get_nth_in_rows(column) is empty when no row has a value at index column;
\* otherwise it has one entry per row, in row order: the value at that index, or None.
C9_GetNthInRows ==
    (pc = "returned" /\ ret.fn = "get_nth_in_rows") =>
        IF \A k \in 1..Len(cache.rows) : Len(cache.rows[k]) <= ret.arg
        THEN ret.val = <<>>
        ELSE /\ Len(ret.val) = Len(cache.rows)
             /\ \A k \in 1..Len(cache.rows) :
                    ret.val[k] = IF ret.arg < Len(cache.rows[k])
                                 THEN SomeStr(cache.rows[k][ret.arg + 1])
                                 ELSE NoneStr

----------------------------------------------------------------------------
(* Properties of the run of main, under Spec, and of the writers, under SpecWriter *)

\* The database failed no statement for a reason of its own.
NoFaults == \A k \in 1..Len(stmts) : ~stmts[k].fault

CountOf(op, ok) == Cardinality({k \in 1..Len(stmts) : stmts[k].q.op = op /\ stmts[k].ok = ok})

\* The only statements that failed are INSERTs: the run met row insertion failures
\* and no other failure of the database.
OnlyInsertsFail == \A k \in 1..Len(stmts) : ~stmts[k].ok => stmts[k].q.op = "INSERT"

\* The INSERT statements handed to the connection so far.
InsertsAttempted == CountOf("INSERT", TRUE) + CountOf("INSERT", FALSE)

\* The row stored for values under columns: each column its value, "" where values ends.
PaddedCells(columns, values) ==
    [k \in 1..Len(columns) |-> SomeStr(IF k <= Len(values) THEN values[k] ELSE "")]

\* C4: without a header, header() is empty and the names are synthesized: a complete
\* run on rows of two columns creates the table with the columns id, column1, column2.
C4_HeaderlessColumns ==
    /\ (~args.use_header /\ pc \in {"loaded", "create", "rows", "done"}) =>
           header(cache) = <<>>
    /\ ( /\ pc = "done"
         /\ ~args.use_header
         /\ args.default_column_name = "column"
         /\ cache.rows # <<>>
         /\ \A k \in 1..Len(cache.rows) : Len(cache.rows[k]) = 2
         /\ ~store.preexisting
         /\ NoFaults ) =>
           (store.exists /\ store.columns = <<"column1", "column2">>)

\* C5: a row with fewer values than columns is stored with "" in each missing
\* trailing column and the INSERT never fails: by add_row_no_index for any columns
\* and values, and by a run of main for every cached row.
C5_ShortRowPadded ==
    /\ ( /\ pc = "returned"
         /\ ret.fn = "add_row_no_index"
         /\ ret.values # <<>>
         /\ Len(ret.values) <= Len(ret.columns)
         /\ stmts[1].ok
         /\ ~store.preexisting
         /\ NoFaults ) =>
           /\ ret.ok
           /\ store.data # <<>>
           /\ store.data[Len(store.data)].cells = PaddedCells(ret.columns, ret.values)
    /\ ( /\ pc = "done"
         /\ stmts[1].ok
         /\ ~store.preexisting
         /\ NoFaults ) =>
           /\ Len(store.data) = Len(cache.rows)
           /\ \A k \in 1..Len(cache.rows) :
                  /\ store.data[k].id = k
                  /\ store.data[k].cells = PaddedCells(header(cache), cache.rows[k])

\* C6: a row whose insertion fails at the database stops no later row, and the count
\* returned is the number of rows whose insertion succeeded: main's loop attempts
\* every row, and both populate_table, when INSERTs are all that fails, return
\* Ok(count) after the last row.
C6_InsertFailuresDoNotStop ==
    /\ pc = "done" => InsertsAttempted = Len(cache.rows)
    /\ ( /\ pc = "returned"
         /\ ret.fn \in {"populate_table_main", "populate_table_sql"}
         /\ OnlyInsertsFail ) =>
           /\ ret.ok
           /\ ii = Len(cache.rows)
           /\ ret.val = CountOf("INSERT", TRUE) - CountOf("UPDATE", FALSE)

\* C7 as stated: the only early end of a run is the failure to open the input, before
\* any statement; after every other failure all the cached rows are still attempted.
C7_OnlyInputOpenIsFatal ==
    /\ pc = "panicked" => (ret.val = "load" /\ stmts = <<>>)
    /\ pc = "done" => InsertsAttempted = Len(cache.rows)

\* C7, amended: a run ends early only when the output database cannot be opened, no
\* table name can be derived from the input path, the input cannot be opened or the
\* named index column is not in the header, each before any statement is issued;
\* otherwise the table is created first and, after a header, record, create-table or
\* insert failure alike, an INSERT is attempted for every cached row in turn.
C7_FatalOnlyBeforeStatements ==
    /\ pc = "panicked" =>
           /\ ret.val \in {"open_db", "basename", "load", "index_column"}
           /\ stmts = <<>>
    /\ pc \in {"rows", "done"} =>
           /\ stmts # <<>>
           /\ stmts[1].q.op = "CREATE"
           /\ InsertsAttempted = Len(stmts) - 1
           /\ InsertsAttempted = ii
           /\ \A k \in 1..ii : stmts[k + 1].q.params =
                                   PadRight(cache.rows[k], Len(stmts[k + 1].q.params))
    /\ pc = "done" => InsertsAttempted = Len(cache.rows)

\* A run to the end through a header failure, a record failure, a create-table
\* failure and an insert failure.
C7_Witness ==
    /\ pc = "done"
    /\ {"headers", "record", "create_table", "add_row"} \subseteq log
    /\ Len(cache.rows) >= 1
    /\ InsertsAttempted = Len(cache.rows)
    /\ NoFaults

\* C8: at every column index the name the table is created with, the name a value
\* is bound under and column_desc's name are the same.
C8_NamesAgree ==
    /\ pc \in {"create", "rows", "done", "returned"} =>
           \A i \in 0..(Len(table_columns(cache)) - 1) :
               table_columns(cache)[i + 1][1] = column_desc(cache, i)[1]
    /\ (pc = "returned" /\ ret.fn = "add_row_no_index") =>
           \A i \in 0..(Len(ret.param_columns) - 1) :
               ret.param_columns[i + 1] = column_desc(cache, i)[1]

\* C10: when populate_table of sql.rs returns Ok(n) the table has gained exactly n
\* rows, none of them partly filled, and no transaction is left open between rows.
C10_RowsAllOrNothing ==
    /\ (pc = "returned" /\ ret.fn = "populate_table_sql" /\ ret.ok /\ NoFaults) =>
           /\ Len(store.data) = ret.val
           /\ \A k \in 1..Len(store.data) :
                  \A c \in 1..Len(store.columns) : store.data[k].cells[c].some
    /\ pc = "populate_sql" => ~store.in_transaction

====
